---- MODULE Spec2Model ----
(***************************************************************************)
(* A model of oatdump (src/src/oatdump.cc): the OatDumper's offset         *)
(* registry (offsets_, AddAllOffsets, AddOffsets, ComputeSize) and the     *)
(* ImageDumper's size attribution (ComputeOatSize, Callback, Stats), the   *)
(* per-method dump of OatDumper (DumpMappingTable, DumpVmap, DumpGcMap)    *)
(* and the outlier report of Stats (DumpOutliers).                         *)
(*                                                                         *)
(* Addresses are natural numbers; 0 is NULL.  The oat file is mapped at    *)
(* [OatBegin, OatEnd]; offsets are uint32 values relative to OatBegin.     *)
(* Addresses, offsets, byte counts and sums stay far below 2^32, and every *)
(* subtraction the code performs on them is guarded by a comparison, so    *)
(* that arithmetic does not wrap; the two size_t products of the outlier   *)
(* sweep can, and are taken modulo 2^32 (MulWrap).                         *)
(***************************************************************************)
EXTENDS Integers, Sequences, FiniteSets

\* ------------------------------------------------------------- bounds
\* oat_file_.Begin(): the address the oat file is mapped at.
OatBegin == 2
\* oat_file_.End() - oat_file_.Begin(): the size of the oat file.
OatSize == 3
\* Most entries of oat_dex_files_.
MaxDexFiles == 2
\* Most class definitions walked in one dex file.
MaxClasses == 1
\* Most methods walked in one class (direct and virtual together).
MaxMethods == 1

OatEnd == OatBegin + OatSize

NULL == 0

\* The addresses a caller may pass: NULL, one below the oat file, the oat
\* file's [OatBegin, OatEnd], and one above it.
Addrs == 0..(OatEnd + 1)

\* The offsets an OatMethod may carry: any offset of the file, and one that
\* lies past its end (the file's content is not validated by the dumper).
Offs == 0..(OatSize + 1)

\* Offsets of the tables of a method: 0 (no table) or a table near the end.
TableOffs == {0, OatSize - 1}

\* OatFile::OatMethod, as far as AddOffsets reads it.
OatMethods ==
  [code_offset : Offs, mapping_table_offset : TableOffs,
   vmap_table_offset : TableOffs, gc_map_offset : TableOffs,
   invoke_stub_offset : Offs]

\* Where a dex file's header may lie: dex files are embedded in the oat file,
\* so &dex_file->GetHeader() is an absolute address inside the mapping.
DexHeaderAddrs == OatBegin..(OatEnd - 1)

VARIABLES
  thumb2,       \* oat header's instruction set is kThumb2
  num_dex,      \* oat_dex_files_.size()
  offsets_,     \* OatDumper::offsets_ (std::set<uint32_t>)
  pc,           \* where the OatDumper is: in AddAllOffsets' loops, ready, aborted
  dex_i,        \* AddAllOffsets: i
  class_i,      \* AddAllOffsets: class_def_index
  method_i,     \* AddAllOffsets: class_method_index
  last_insert,  \* history: the value of the latest offsets_.insert, -1 if none
  ret,          \* history: the latest ComputeSize call: its address, its outcome,
                \* and whether it repeats the first call's address
  first_call,   \* history: the first ComputeSize call, its address and outcome
  ipc,          \* where ImageDumper::Dump is: no image, objects, flush,
                \* flushed, walk, large_objects, dumped, returned, aborted
  already_seen_,\* ImageDumper::already_seen_ (std::set<const void*>)
  stats_,       \* ImageDumper::stats_
  calls,        \* history: every ComputeOatSize call, in order
  callbacks,    \* history: the object of every Callback that returned, in order
  emitted,      \* the sections Stats::Dump has written, in order
  heap_bitmap_lock_, \* the holds ImageDumper::Dump has on
                \* Locks::heap_bitmap_lock_: "writer", "reader"
  dpc,          \* where OatDumper::DumpOatClass is: no dump, class (between
                \* methods), vmap, for, while, gc_map, finished, aborted
  class_method_index, \* DumpOatClass: class_method_index
  num_methods,  \* the methods of the class being dumped
  section,      \* the section of the method dump written last: its kind,
                \* what it was decoded from (in) and what was written (os)
  scan,         \* DumpVmap's locals: i, matches, spill_shifts, spill_mask,
                \* processing_fp
  opc,          \* where Stats::DumpOutliers is: no call, means, size_sweep,
                \* size_end, expansion_sweep, expansion_end, done, sigfpe
  sweep,        \* DumpOutliers' locals, and the thresholds the sweep in
                \* progress has evaluated (history)
  samples       \* history: the vectors as DumpOutliers was entered

oatvars == <<thumb2, num_dex, offsets_, pc, dex_i, class_i, method_i, last_insert,
             ret, first_call>>

imgvars == <<ipc, already_seen_, stats_, calls, callbacks, emitted,
             heap_bitmap_lock_>>

dumpvars == <<dpc, class_method_index, num_methods, section, scan>>

outvars == <<opc, sweep, samples>>

vars == <<oatvars, imgvars, dumpvars, outvars>>

NoCall == [addr |-> -1, aborted |-> FALSE, size |-> 0, again |-> FALSE]

\* ------------------------------------------------------- OatDumper

Min(S) == CHOOSE x \in S : \A y \in S : x <= y

\* std::set::upper_bound(k): the elements after k; the iterator is end()
\* when there is none, and otherwise points at the least of them.
UpperBound(offs, k) == {o \in offs : o > k}

\* ComputeSize with lower_bound in place of upper_bound.
ComputeSize_LowerBound(offs, oat_data) ==
  IF oat_data < OatBegin \/ oat_data > OatEnd
    THEN [aborted |-> FALSE, size |-> 0]
    ELSE LET begin_offset == oat_data - OatBegin
             after == {o \in offs : o >= begin_offset}
         IN  IF after = {}
               THEN [aborted |-> TRUE, size |-> 0]
               ELSE [aborted |-> FALSE, size |-> Min(after) - begin_offset]

\* ComputeSize without its CHECK: an end() iterator yields a size of 0.
ComputeSize_NoCheck(offs, oat_data) ==
  IF oat_data < OatBegin \/ oat_data > OatEnd
    THEN [aborted |-> FALSE, size |-> 0]
    ELSE LET begin_offset == oat_data - OatBegin
             after == UpperBound(offs, begin_offset)
         IN  IF after = {}
               THEN [aborted |-> FALSE, size |-> 0]
               ELSE [aborted |-> FALSE, size |-> Min(after) - begin_offset]

\* ComputeSize whose range test also rejects the end address.
ComputeSize_EndExcluded(offs, oat_data) ==
  IF oat_data < OatBegin \/ oat_data >= OatEnd
    THEN [aborted |-> FALSE, size |-> 0]
    ELSE LET begin_offset == oat_data - OatBegin
             after == UpperBound(offs, begin_offset)
         IN  IF after = {}
               THEN [aborted |-> TRUE, size |-> 0]
               ELSE [aborted |-> FALSE, size |-> Min(after) - begin_offset]

\* OatDumper::ComputeSize(oat_data) on registry offs: the size returned, or
\* the fatal abort of CHECK(it != offsets_.end()).
ComputeSize(offs, oat_data) ==
  IF oat_data < OatBegin \/ oat_data > OatEnd
    THEN [aborted |-> FALSE, size |-> 0]
    ELSE LET begin_offset == oat_data - OatBegin
             after == UpperBound(offs, begin_offset)
         IN  IF after = {}
               THEN [aborted |-> TRUE, size |-> 0]
               ELSE [aborted |-> FALSE, size |-> Min(after) - begin_offset]

\* OatDumper::AddOffsets(oat_method): the values it inserts.
AddOffsets(m, isThumb2) ==
  LET code_offset == IF isThumb2 THEN m.code_offset - (m.code_offset % 2)
                                 ELSE m.code_offset
  IN  {code_offset, m.mapping_table_offset, m.vmap_table_offset,
       m.gc_map_offset, m.invoke_stub_offset}

Descriptors == {"Ljava/lang/Object;", "Ljava/lang/reflect/Method;"}

\* Stats::Stats(): every counter 0, every table empty.
NewStats ==
  [oat_file_bytes |-> 0, file_bytes |-> 0, header_bytes |-> 0,
   object_bytes |-> 0, alignment_bytes |-> 0,
   managed_code_bytes |-> 0,
   managed_code_bytes_ignoring_deduplication |-> 0,
   managed_to_native_code_bytes |-> 0,
   native_to_managed_code_bytes |-> 0,
   gc_map_bytes |-> 0, pc_mapping_table_bytes |-> 0, vmap_table_bytes |-> 0,
   dex_instruction_bytes |-> 0,
   method_outlier_size |-> << >>,
   method_outlier_expansion |-> << >>,
   sizes_and_counts |-> [d \in Descriptors |-> [bytes |-> 0, count |-> 0]]]

NoImage ==
  /\ ipc = "none"
  /\ already_seen_ = {}
  /\ stats_ = NewStats
  /\ calls = << >>
  /\ callbacks = << >>
  /\ emitted = << >>
  /\ heap_bitmap_lock_ = {}

NoSection == [kind |-> "none"]

NoScan ==
  [i |-> 0, matches |-> 0, spill_shifts |-> 0, spill_mask |-> 0,
   processing_fp |-> FALSE]

\* OatDumper::Dump has not been called.
NoDump ==
  /\ dpc = "none"
  /\ class_method_index = 0
  /\ num_methods = 0
  /\ section = NoSection
  /\ scan = NoScan

NoSweep ==
  [i |-> 0, j |-> 0, size_mean |-> 0, size_variance |-> 0, expansion_mean |-> 0,
   expansion_variance |-> [num |-> 0, den |-> 1], dumped_values |-> 0,
   skipped_values |-> 0, evaluated |-> << >>, log |-> << >>]

\* Stats::DumpOutliers has not been called.
NoOutliers ==
  /\ opc = "none"
  /\ sweep = NoSweep
  /\ samples = [size |-> << >>, expansion |-> << >>]

\* The state after the member initialisers of OatDumper's constructor, as
\* AddAllOffsets is entered (oatdump --oat-file: there is no ImageDumper).
Init ==
  /\ thumb2 \in BOOLEAN
  /\ num_dex \in 0..MaxDexFiles
  /\ offsets_ = {}
  /\ pc = "dex_loop"
  /\ dex_i = 0
  /\ class_i = 0
  /\ method_i = 0
  /\ last_insert = -1
  /\ ret = NoCall
  /\ first_call = NoCall
  /\ NoImage
  /\ NoDump
  /\ NoOutliers

\* AddAllOffsets, one iteration of the loop over oat_dex_files_ up to the
\* class loop: a dex file that fails to open is skipped; otherwise the
\* address of its header is inserted (as a uint32 value).
OpenDexFile ==
  /\ pc = "dex_loop"
  /\ dex_i < num_dex
  /\ \E opened \in BOOLEAN :
       IF ~opened
         THEN /\ dex_i' = dex_i + 1
              /\ UNCHANGED <<offsets_, pc, last_insert>>
         ELSE \E header \in DexHeaderAddrs :
                /\ offsets_' = offsets_ \cup {header}
                /\ last_insert' = header
                /\ pc' = "class_loop"
                /\ UNCHANGED dex_i
  /\ class_i' = 0
  /\ UNCHANGED <<thumb2, num_dex, method_i, ret, first_call>>
  /\ UNCHANGED <<imgvars, dumpvars, outvars>>

\* AddAllOffsets, the class loop's test and the head of its body: a class
\* without class data adds nothing.
NextClass ==
  /\ pc = "class_loop"
  /\ class_i < MaxClasses
  /\ \E has_class_data \in BOOLEAN :
       IF has_class_data
         THEN /\ pc' = "method_loop"
              /\ UNCHANGED class_i
         ELSE /\ class_i' = class_i + 1
              /\ UNCHANGED pc
  /\ method_i' = 0
  /\ UNCHANGED <<thumb2, num_dex, offsets_, dex_i, last_insert, ret, first_call>>
  /\ UNCHANGED <<imgvars, dumpvars, outvars>>

\* AddAllOffsets, the class loop ends: class_def_index == NumClassDefs().
EndClasses ==
  /\ pc = "class_loop"
  /\ pc' = "dex_loop"
  /\ dex_i' = dex_i + 1
  /\ class_i' = 0
  /\ UNCHANGED <<thumb2, num_dex, offsets_, method_i, last_insert, ret, first_call>>
  /\ UNCHANGED <<imgvars, dumpvars, outvars>>

\* AddAllOffsets, one iteration of a method loop (direct, then virtual):
\* AddOffsets(oat_class->GetOatMethod(class_method_index++)).
AddMethod ==
  /\ pc = "method_loop"
  /\ method_i < MaxMethods
  /\ \E m \in OatMethods :
       /\ offsets_' = offsets_ \cup AddOffsets(m, thumb2)
       /\ last_insert' = m.invoke_stub_offset
  /\ method_i' = method_i + 1
  /\ UNCHANGED <<thumb2, num_dex, pc, dex_i, class_i, ret, first_call>>
  /\ UNCHANGED <<imgvars, dumpvars, outvars>>

\* AddAllOffsets, the method loops end: the next class.
EndMethods ==
  /\ pc = "method_loop"
  /\ pc' = "class_loop"
  /\ class_i' = class_i + 1
  /\ method_i' = 0
  /\ UNCHANGED <<thumb2, num_dex, offsets_, dex_i, last_insert, ret, first_call>>
  /\ UNCHANGED <<imgvars, dumpvars, outvars>>

\* AddAllOffsets returning without the entry for the end of the file.
InsertEnd_Missing ==
  /\ pc = "dex_loop"
  /\ dex_i = num_dex
  /\ pc' = "ready"
  /\ dex_i' = 0
  /\ UNCHANGED <<thumb2, num_dex, offsets_, last_insert, class_i, method_i, ret,
                 first_call>>
  /\ UNCHANGED <<imgvars, dumpvars, outvars>>

\* AddAllOffsets, after the loop: the entry for the end of the file; the
\* constructor returns.
InsertEnd ==
  /\ pc = "dex_loop"
  /\ dex_i = num_dex
  /\ offsets_' = offsets_ \cup {OatEnd - OatBegin}
  /\ last_insert' = OatEnd - OatBegin
  /\ pc' = "ready"
  /\ dex_i' = 0
  /\ UNCHANGED <<thumb2, num_dex, class_i, method_i, ret, first_call>>
  /\ UNCHANGED <<imgvars, dumpvars, outvars>>

\* A ComputeSize that registers the queried offset while looking it up.
ComputeSizeCall_Inserting ==
  /\ pc = "ready"
  /\ \E oat_data \in Addrs :
       LET r == ComputeSize(offsets_, oat_data)
           call == [addr |-> oat_data, aborted |-> r.aborted, size |-> r.size,
                    again |-> first_call.addr = oat_data]
       IN  /\ ret' = call
           /\ first_call' = IF first_call = NoCall THEN call ELSE first_call
           /\ pc' = IF r.aborted THEN "aborted" ELSE "ready"
           /\ offsets_' = IF oat_data < OatBegin \/ oat_data > OatEnd
                            THEN offsets_
                            ELSE offsets_ \cup {oat_data - OatBegin}
  /\ UNCHANGED <<thumb2, num_dex, dex_i, class_i, method_i, last_insert>>
  /\ UNCHANGED <<imgvars, dumpvars, outvars>>

\* A call of the public OatDumper::ComputeSize on the constructed dumper.
ComputeSizeCall ==
  /\ pc = "ready"
  /\ \E oat_data \in Addrs :
       LET r == ComputeSize(offsets_, oat_data)
           call == [addr |-> oat_data, aborted |-> r.aborted, size |-> r.size,
                    again |-> first_call.addr = oat_data]
       IN  /\ ret' = call
           /\ first_call' = IF first_call = NoCall THEN call ELSE first_call
           /\ pc' = IF r.aborted THEN "aborted" ELSE "ready"
  /\ UNCHANGED <<thumb2, num_dex, offsets_, dex_i, class_i, method_i, last_insert>>
  /\ UNCHANGED <<imgvars, dumpvars, outvars>>

Next ==
  \/ OpenDexFile
  \/ NextClass
  \/ EndClasses
  \/ AddMethod
  \/ EndMethods
  \/ InsertEnd
  \/ ComputeSizeCall

Spec == Init /\ [][Next]_vars

\* ------------------------------------------------------- ImageDumper

\* Most objects the heap walk visits.
MaxCallbacks == 2

\* kObjectAlignment.
kObjectAlignment == 8

\* sizeof(ImageHeader).
SizeofImageHeader == 6

RoundUp(x, n) == ((x + n - 1) \div n) * n

\* The registry of the image's OatDumper: what AddAllOffsets leaves for an
\* oat file whose dex files are skipped, or define a region at offset 1,
\* or carry an offset past the end of the file, or both.
ImageRegistries == {{OatSize} \cup extra : extra \in SUBSET {1, OatSize + 1}}

\* Pointers of the methods of the image.  A table pointer is NULL or the
\* address of a table; every invoke stub is the one stub of the methods'
\* common signature; code lies in the file or at its end.
TablePtrs == {NULL, OatBegin + 1}
StubPtrs == {OatBegin}
CodePtrs == {OatBegin + 2, OatEnd}

\* A method compiled to managed code.  "code" is m->GetCode(), or what
\* OatDumper::GetOatCode finds when that is the resolution stub.
ManagedMethods ==
  [kind : {"managed"}, in_space : {TRUE}, object_bytes : {kObjectAlignment + 4},
   gc_map : TablePtrs, mapping_table : TablePtrs, vmap_table : TablePtrs,
   invoke_stub : StubPtrs, code : CodePtrs, insns_size_in_code_units : {1}]

\* A native method: no GC map, no mapping table.  Its code may also lie
\* outside the oat file.
NativeMethods ==
  [kind : {"native"}, in_space : {TRUE}, object_bytes : {kObjectAlignment + 4},
   gc_map : {NULL}, mapping_table : {NULL}, vmap_table : {NULL},
   invoke_stub : StubPtrs, code : CodePtrs \cup {OatEnd + 1},
   insns_size_in_code_units : {0}]

\* An abstract, callee-save or resolution method.
AbstractMethod ==
  [kind |-> "abstract", in_space |-> TRUE, object_bytes |-> kObjectAlignment + 4,
   gc_map |-> NULL, mapping_table |-> NULL, vmap_table |-> NULL,
   invoke_stub |-> NULL, code |-> NULL, insns_size_in_code_units |-> 0]

\* An object that is no method, class or array.
PlainObject ==
  [kind |-> "object", in_space |-> TRUE, object_bytes |-> kObjectAlignment,
   gc_map |-> NULL, mapping_table |-> NULL, vmap_table |-> NULL,
   invoke_stub |-> NULL, code |-> NULL, insns_size_in_code_units |-> 0]

\* A managed method that lives in another space than the image's.
MethodOutsideImage ==
  [kind |-> "managed", in_space |-> FALSE, object_bytes |-> kObjectAlignment + 4,
   gc_map |-> OatBegin + 1, mapping_table |-> NULL, vmap_table |-> NULL,
   invoke_stub |-> OatBegin, code |-> OatBegin + 2,
   insns_size_in_code_units |-> 1]

\* The objects the live bitmaps of the heap's spaces may hold.
HeapObjects ==
  ManagedMethods \cup NativeMethods
    \cup {AbstractMethod, PlainObject, MethodOutsideImage}

\* ClassHelper(obj_class).GetDescriptor().
Descriptor(obj) ==
  IF obj.kind = "object" THEN "Ljava/lang/Object;" ELSE "Ljava/lang/reflect/Method;"

\* ImageDumper::GetOatCodeBegin(m): the Thumb2 bit is cleared.
GetOatCodeBegin(m, isThumb2) ==
  IF isThumb2 THEN m.code - (m.code % 2) ELSE m.code

\* The uint32 stored in front of the code at oat_code_begin: the memory
\* holds a code size of 1 in front of even addresses and 2 in front of odd.
CodeSizeWord(oat_code_begin) == 1 + (oat_code_begin % 2)

\* oat_code_begin[-1], or 0 for NULL.
CodeSizeAt(oat_code_begin) ==
  IF oat_code_begin = NULL THEN 0 ELSE CodeSizeWord(oat_code_begin)

\* ImageDumper::GetOatCodeSize(m).
GetOatCodeSize(m, isThumb2) == CodeSizeAt(GetOatCodeBegin(m, isThumb2))

\* The dumper while one Callback runs: the seen-set, the statistics, the
\* history of calls, whether a CHECK has killed the process, and the out
\* values of the latest ComputeOatSize.
Entering(seen, stats, log) ==
  [seen |-> seen, stats |-> stats, calls |-> log, aborted |-> FALSE,
   first |-> FALSE, size |-> 0]

\* ComputeOatSize that does not remember NULL.
ComputeOatSize_NullNotRemembered(st, offs, oat_data, site) ==
  IF st.aborted THEN st
  ELSE LET first_occurrence == oat_data \notin st.seen
           r == ComputeSize(offs, oat_data)
       IN  [st EXCEPT
              !.seen = IF oat_data = NULL THEN @ ELSE @ \cup {oat_data},
              !.first = first_occurrence,
              !.size = r.size,
              !.aborted = r.aborted,
              !.calls = Append(@, [addr |-> oat_data, site |-> site,
                                   first |-> first_occurrence,
                                   size |-> r.size, aborted |-> r.aborted])]

\* ImageDumper::ComputeOatSize(oat_data, &first_occurrence), called at
\* `site`; a dead process does nothing.
ComputeOatSize(st, offs, oat_data, site) ==
  IF st.aborted THEN st
  ELSE LET first_occurrence == oat_data \notin st.seen
           r == ComputeSize(offs, oat_data)
       IN  [st EXCEPT
              !.seen = @ \cup {oat_data},
              !.first = first_occurrence,
              !.size = r.size,
              !.aborted = r.aborted,
              !.calls = Append(@, [addr |-> oat_data, site |-> site,
                                   first |-> first_occurrence,
                                   size |-> r.size, aborted |-> r.aborted])]

\* stats_.<counter> += amount.
Add(st, counter, amount) ==
  IF st.aborted THEN st ELSE [st EXCEPT !.stats[counter] = @ + amount]

\* The guarded add without its guard.
AddIfFirst_Always(st, counter, amount) == Add(st, counter, amount)

\* if (first_occurrence) { stats_.<counter> += amount; }
AddIfFirst(st, counter, amount) ==
  IF st.first THEN Add(st, counter, amount) ELSE st

\* Both code counters behind the first-occurrence test.
AddCodeBytes_OnlyFirst(st, oat_code_size) ==
  IF st.first
    THEN Add(Add(st, "managed_code_bytes", oat_code_size),
             "managed_code_bytes_ignoring_deduplication", oat_code_size)
    ELSE st

\* Callback, the code counters of a managed method: managed_code_bytes on
\* the first occurrence only, the counter that ignores deduplication
\* always.  (The initializer and large-method counters that the same test
\* guards are left out: nothing reads them.)
AddCodeBytes(st, oat_code_size) ==
  Add(AddIfFirst(st, "managed_code_bytes", oat_code_size),
      "managed_code_bytes_ignoring_deduplication", oat_code_size)

\* Stats::ComputeOutliers(total_size, expansion, method); the expansion
\* oat_code_size / dex_instruction_bytes is kept as the pair.
ComputeOutliers(st, total_size, expansion) ==
  IF st.aborted THEN st
  ELSE [st EXCEPT
          !.stats.method_outlier_size = Append(@, total_size),
          !.stats.method_outlier_expansion = Append(@, expansion)]

\* Stats::Update(descriptor, object_bytes).
Update(st, descriptor, object_bytes) ==
  IF st.aborted THEN st
  ELSE [st EXCEPT
          !.stats.sizes_and_counts[descriptor] =
            [bytes |-> @.bytes + object_bytes, count |-> @.count + 1]]

\* Callback, the branch of a native method.
NativeMethodCallback(st0, offs, m, isThumb2) ==
  LET s1 == ComputeOatSize(st0, offs, m.invoke_stub, "native_invoke_stub")
      s2 == AddIfFirst(s1, "managed_to_native_code_bytes", s1.size)
      oat_code == GetOatCodeBegin(m, isThumb2)
      oat_code_size == GetOatCodeSize(m, isThumb2)
      s3 == ComputeOatSize(s2, offs, oat_code, "native_code")
  IN  AddIfFirst(s3, "native_to_managed_code_bytes", oat_code_size)

\* Callback, the branch of a method with managed code.
ManagedMethodCallback(st0, offs, m, isThumb2) ==
  LET dex_instruction_bytes == m.insns_size_in_code_units * 2
      s0 == Add(st0, "dex_instruction_bytes", dex_instruction_bytes)
      s1 == ComputeOatSize(s0, offs, m.gc_map, "gc_map")
      gc_map_bytes == s1.size
      s2 == AddIfFirst(s1, "gc_map_bytes", gc_map_bytes)
      s3 == ComputeOatSize(s2, offs, m.mapping_table, "mapping_table")
      pc_mapping_table_bytes == s3.size
      s4 == AddIfFirst(s3, "pc_mapping_table_bytes", pc_mapping_table_bytes)
      s5 == ComputeOatSize(s4, offs, m.vmap_table, "vmap_table")
      vmap_table_bytes == s5.size
      s6 == AddIfFirst(s5, "vmap_table_bytes", vmap_table_bytes)
      s7 == ComputeOatSize(s6, offs, m.invoke_stub, "invoke_stub")
      invoke_stub_size == s7.size
      s8 == AddIfFirst(s7, "native_to_managed_code_bytes", invoke_stub_size)
      oat_code_begin == GetOatCodeBegin(m, isThumb2)
      oat_code_size == GetOatCodeSize(m, isThumb2)
      s9 == ComputeOatSize(s8, offs, oat_code_begin, "code")
      s10 == AddCodeBytes(s9, oat_code_size)
      total_size == dex_instruction_bytes + gc_map_bytes + pc_mapping_table_bytes
                      + vmap_table_bytes + invoke_stub_size + oat_code_size
                      + m.object_bytes
  IN  ComputeOutliers(s10, total_size, <<oat_code_size, dex_instruction_bytes>>)

\* ImageDumper::Callback(obj, state) for an object of the dumped space.
CallbackBody(st0, offs, obj, isThumb2) ==
  LET alignment_bytes ==
        RoundUp(obj.object_bytes, kObjectAlignment) - obj.object_bytes
      s1 == Add(Add(st0, "object_bytes", obj.object_bytes),
                "alignment_bytes", alignment_bytes)
      s2 == CASE obj.kind = "native" -> NativeMethodCallback(s1, offs, obj, isThumb2)
              [] obj.kind = "managed" -> ManagedMethodCallback(s1, offs, obj, isThumb2)
              [] OTHER -> s1
  IN  Update(s2, Descriptor(obj), obj.object_bytes)

\* ImageDumper::Dump has found the image's oat file, built its OatDumper
\* and written "OBJECTS:"; it holds no lock.
InitImage ==
  /\ thumb2 \in BOOLEAN
  /\ num_dex = MaxDexFiles
  /\ offsets_ \in ImageRegistries
  /\ pc = "ready"
  /\ dex_i = 0
  /\ class_i = 0
  /\ method_i = 0
  /\ last_insert = OatEnd - OatBegin
  /\ ret = NoCall
  /\ first_call = NoCall
  /\ ipc = "objects"
  /\ already_seen_ = {}
  /\ stats_ = [NewStats EXCEPT !.oat_file_bytes = OatSize]
  /\ calls = << >>
  /\ callbacks = << >>
  /\ emitted = << >>
  /\ heap_bitmap_lock_ = {}
  /\ NoDump
  /\ NoOutliers

\* Line 577: WriterMutexLock mu(*Locks::heap_bitmap_lock_).
WriterLock ==
  /\ ipc = "objects"
  /\ ipc' = "flush"
  /\ heap_bitmap_lock_' = heap_bitmap_lock_ \cup {"writer"}
  /\ UNCHANGED <<oatvars, already_seen_, stats_, calls, callbacks, emitted>>
  /\ UNCHANGED <<dumpvars, outvars>>

\* Lines 578-579: heap->FlushAllocStack(), and the end of the block, where
\* the WriterMutexLock goes out of scope.
FlushAllocStack ==
  /\ ipc = "flush"
  /\ ipc' = "flushed"
  /\ heap_bitmap_lock_' = heap_bitmap_lock_ \ {"writer"}
  /\ UNCHANGED <<oatvars, already_seen_, stats_, calls, callbacks, emitted>>
  /\ UNCHANGED <<dumpvars, outvars>>

\* Dump going on to the walk without the reader lock.
ReaderLock_NotTaken ==
  /\ ipc = "flushed"
  /\ ipc' = "walk"
  /\ UNCHANGED <<oatvars, already_seen_, stats_, calls, callbacks, emitted>>
  /\ UNCHANGED <<heap_bitmap_lock_, dumpvars, outvars>>

\* Line 580: ReaderMutexLock mu(*Locks::heap_bitmap_lock_), held to the
\* end of Dump; the loop over the spaces is entered.
ReaderLock ==
  /\ ipc = "flushed"
  /\ ipc' = "walk"
  /\ heap_bitmap_lock_' = heap_bitmap_lock_ \cup {"reader"}
  /\ UNCHANGED <<oatvars, already_seen_, stats_, calls, callbacks, emitted>>
  /\ UNCHANGED <<dumpvars, outvars>>

\* Lines 582-587: the loop over the spaces ends, and the walk of the large
\* object space starts.
WalkLargeObjects ==
  /\ ipc = "walk"
  /\ ipc' = "large_objects"
  /\ UNCHANGED <<oatvars, already_seen_, stats_, calls, callbacks, emitted>>
  /\ UNCHANGED <<heap_bitmap_lock_, dumpvars, outvars>>

\* Lines 600-604: after Stats::Dump the OatDumper dumps the oat file, and
\* Dump returns: the ReaderMutexLock goes out of scope.
DumpReturn ==
  /\ ipc = "dumped"
  /\ ipc' = "returned"
  /\ heap_bitmap_lock_' = heap_bitmap_lock_ \ {"reader"}
  /\ UNCHANGED <<oatvars, already_seen_, stats_, calls, callbacks, emitted>>
  /\ UNCHANGED <<dumpvars, outvars>>

\* The walk of a live bitmap (of a space, or of the large objects) calls
\* ImageDumper::Callback on one object.  An object outside the dumped
\* space is left alone; a failed CHECK in ComputeSize ends the process.
Callback ==
  /\ ipc \in {"walk", "large_objects"}
  /\ Len(callbacks) < MaxCallbacks
  /\ \E obj \in HeapObjects :
       IF ~obj.in_space
         THEN /\ callbacks' = Append(callbacks, obj)
              /\ UNCHANGED <<ipc, already_seen_, stats_, calls>>
         ELSE LET st == CallbackBody(Entering(already_seen_, stats_, calls),
                                     offsets_, obj, thumb2)
              IN  /\ already_seen_' = st.seen
                  /\ stats_' = st.stats
                  /\ calls' = st.calls
                  /\ ipc' = IF st.aborted THEN "aborted" ELSE ipc
                  /\ callbacks' = IF st.aborted THEN callbacks
                                                ELSE Append(callbacks, obj)
  /\ UNCHANGED <<oatvars, emitted, heap_bitmap_lock_, dumpvars, outvars>>

\* Stats::Dump's first CHECK_EQ: the identity of the art file's bytes.
FileBytesReconcile(stats) ==
  stats.file_bytes = stats.header_bytes + stats.object_bytes + stats.alignment_bytes

RECURSIVE SumBytes(_, _)
\* Stats::Dump's object_bytes_total over the entries of sizes_and_counts.
SumBytes(table, ds) ==
  IF ds = {} THEN 0
  ELSE LET d == CHOOSE x \in ds : TRUE
       IN  table[d].bytes + SumBytes(table, ds \ {d})

\* Stats::Dump with a check that only logs.
StatsDump_NotFatal(stats) ==
  [emitted |-> <<"summary", "breakdown", "totals", "outliers">>,
   aborted |-> FALSE]

\* Stats::Dump(os) on `stats`: the sections written and whether a CHECK_EQ
\* failed.
StatsDump(stats) ==
  IF ~FileBytesReconcile(stats)
    THEN [emitted |-> <<"summary">>, aborted |-> TRUE]
  ELSE IF stats.object_bytes
            # SumBytes(stats.sizes_and_counts,
                       {d \in Descriptors : stats.sizes_and_counts[d].count > 0})
    THEN [emitted |-> <<"summary", "breakdown">>, aborted |-> TRUE]
  ELSE [emitted |-> <<"summary", "breakdown", "totals", "outliers">>,
        aborted |-> FALSE]

\* ImageDumper::Dump after the walk: file_bytes is the length of the image
\* file (the bytes the walk has accounted for, or a file one byte longer),
\* the header and its padding are added, and Stats::Dump runs.  With fewer
\* than two method samples the integer divisions at the head of
\* DumpOutliers divide by zero, which may trap.
DumpStats ==
  /\ ipc = "large_objects"
  /\ \E unaccounted \in {0, 1}, traps \in BOOLEAN :
       LET header_bytes == SizeofImageHeader
           alignment_bytes == RoundUp(header_bytes, kObjectAlignment) - header_bytes
           stats == [stats_ EXCEPT
                       !.file_bytes = header_bytes + alignment_bytes
                                        + stats_.object_bytes + stats_.alignment_bytes
                                        + unaccounted,
                       !.header_bytes = header_bytes,
                       !.alignment_bytes = @ + alignment_bytes]
           dump == StatsDump(stats)
       IN  /\ traps => ~dump.aborted /\ Len(stats.method_outlier_size) < 2
           /\ stats_' = stats
           /\ emitted' = IF traps THEN <<"summary", "breakdown", "totals">>
                                   ELSE dump.emitted
           /\ ipc' = IF dump.aborted THEN "dump_aborted"
                     ELSE IF traps THEN "sigfpe" ELSE "dumped"
  /\ UNCHANGED <<oatvars, already_seen_, calls, callbacks, heap_bitmap_lock_>>
  /\ UNCHANGED <<dumpvars, outvars>>

NextImage ==
  \/ WriterLock
  \/ FlushAllocStack
  \/ ReaderLock
  \/ Callback
  \/ WalkLargeObjects
  \/ DumpStats
  \/ DumpReturn

SpecImage == InitImage /\ [][NextImage]_vars

\* ------------------------------------------------------- OatDumper::Dump

\* Most methods of the class that is dumped.
MaxOatMethods == 2
\* Most words a mapping table declares.
MaxMapWords == 4
\* Most entries of a vmap table.
MaxVmapEntries == 3
\* Most entries of a native GC map.
MaxGcEntries == 2
\* Widest register bitmap of a native GC map, in bytes.
MaxRegWidth == 2

\* oat_method.GetCode() of the method that is dumped.
DumpCodePtrs == {NULL, OatBegin + 2}

\* The k-th word stored behind the two header words of a mapping table
\* (k from 0): words that differ from each other.
StoredWord(k) == 16 * (k + 1) + k

\* The mapping tables a method may point to: no table, or a header that
\* declares `length` words and pc_to_dex_entries of them as the first
\* section, followed by that many words or by twice as many.  The content
\* is not validated, so pc_to_dex_entries may exceed length.
MappingTables ==
  {[null |-> TRUE, length |-> 0, pc_to_dex_entries |-> 0, words |-> << >>]}
    \cup {[null |-> FALSE, length |-> len, pc_to_dex_entries |-> fwd,
           words |-> [k \in 1..(len * stored) |-> StoredWord(k - 1)]] :
            len \in 0..MaxMapWords, fwd \in 0..(MaxMapWords + 1),
            stored \in {1, 2}}

\* What a read behind the stored words may find: the memory there belongs
\* to something else.
StrayWords == {0, 7}

\* raw_table[k] behind the header.
RawTable(t, k, stray) ==
  IF k < Len(t.words) THEN t.words[k + 1] ELSE stray

\* os << ... after the opening brace: the pair goes to the group that is
\* open, the last one.
AppendToLast(groups, pair) ==
  [groups EXCEPT ![Len(groups)] = Append(@, pair)]

RECURSIVE MappingTableLoop(_, _, _, _, _)
\* DumpMappingTable's loop from index i on.  `groups` are the brace groups
\* written so far, the last one still open.
MappingTableLoop(t, code, stray, i, groups) ==
  IF i >= t.length THEN groups
  ELSE LET native_pc == code + RawTable(t, i, stray)
           dex_pc == RawTable(t, i + 1, stray)
           written == AppendToLast(groups, [native_pc |-> native_pc,
                                            dex_pc |-> dex_pc])
           separated == IF i + 2 = t.pc_to_dex_entries
                          THEN Append(written, << >>)
                          ELSE written
       IN  MappingTableLoop(t, code, stray, i + 2, separated)

\* DumpMappingTable that takes the header's length for a number of pairs.
DumpMappingTable_LengthInPairs(t, code, stray) ==
  IF t.null \/ code = NULL THEN << >>
  ELSE MappingTableLoop([t EXCEPT !.length = 2 * @], code, stray, 0, << << >> >>)

\* OatDumper::DumpMappingTable: the brace groups written, none when the
\* method has no table or no code.
DumpMappingTable(t, code, stray) ==
  IF t.null \/ code = NULL THEN << >>
  ELSE MappingTableLoop(t, code, stray, 0, << << >> >>)

\* The greatest index of raw_table (behind the header) that the loop
\* reads, -1 if it reads none: the loop reads i and i + 1 for every even
\* i below length.
LastIndexRead(t, code) ==
  IF t.null \/ code = NULL \/ t.length = 0 THEN -1
  ELSE 2 * ((t.length - 1) \div 2) + 1

\* The bytes of a register bitmap.
GcBytes == {5, 129}

\* GetNativePcOffset(entry): offsets that do not grow with the entry.
GcOffset(entry) == 2 * (MaxGcEntries - entry) + 1

\* NativePcOffsetToReferenceMap(gc_map_raw): no map, or RegWidth() and one
\* (native pc offset, bitmap) per entry.
GcMaps ==
  {[null |-> TRUE, reg_width |-> 0, entries |-> << >>]}
    \cup UNION {
      {[null |-> FALSE, reg_width |-> w,
        entries |-> [e \in 1..n |-> [native_pc_offset |-> GcOffset(e - 1),
                                     bitmap |-> bm[e]]]] :
         bm \in [1..n -> [1..w -> GcBytes]]} :
      w \in 1..MaxRegWidth, n \in 0..MaxGcEntries}

RECURSIVE Pow2(_)
Pow2(n) == IF n = 0 THEN 1 ELSE 2 * Pow2(n - 1)

\* The test with the bits of a byte counted from the high end.
RegIsLive_HighBitFirst(reg_bitmap, reg) ==
  ((reg_bitmap[(reg \div 8) + 1] \div Pow2(7 - (reg % 8))) % 2) # 0

\* ((reg_bitmap[reg / 8] >> (reg % 8)) & 0x01) != 0
RegIsLive(reg_bitmap, reg) ==
  ((reg_bitmap[(reg \div 8) + 1] \div Pow2(reg % 8)) % 2) # 0

RECURSIVE GcMapRegs(_, _, _, _)
\* DumpGcMap's inner loop from reg on: the registers written on the line.
GcMapRegs(reg_bitmap, num_regs, reg, line) ==
  IF reg >= num_regs THEN line
  ELSE GcMapRegs(reg_bitmap, num_regs, reg + 1,
                 IF RegIsLive(reg_bitmap, reg) THEN Append(line, reg) ELSE line)

RECURSIVE GcMapLoop(_, _, _, _)
\* DumpGcMap's outer loop from `entry` on (entries counted from 0).
GcMapLoop(map, code, entry, os) ==
  IF entry >= Len(map.entries) THEN os
  ELSE LET native_pc == code + map.entries[entry + 1].native_pc_offset
           num_regs == map.reg_width * 8
           reg_bitmap == map.entries[entry + 1].bitmap
       IN  GcMapLoop(map, code, entry + 1,
                     Append(os, [native_pc |-> native_pc,
                                 regs |-> GcMapRegs(reg_bitmap, num_regs, 0, << >>)]))

\* OatDumper::DumpGcMap: the lines written.
DumpGcMap(code, map) ==
  IF map.null THEN << >> ELSE GcMapLoop(map, code, 0, << >>)

RECURSIVE MaskOf(_)
\* The uint32 with exactly the bits of `bits` set.
MaskOf(bits) ==
  IF bits = {} THEN 0
  ELSE LET b == CHOOSE x \in bits : TRUE
       IN  Pow2(b) + MaskOf(bits \ {b})

\* The bits a core spill mask and an fp spill mask may have set.
CoreBits == {0, 15}
FpBits == {0}

\* The vmap table a method may point to: no table, or a table of dex
\* registers v5, v6, ...
VmapTables ==
  {[null |-> TRUE, table |-> << >>]}
    \cup {[null |-> FALSE, table |-> [k \in 1..n |-> 4 + k]] :
            n \in 0..MaxVmapEntries}

\* What DumpVmap is called with.
VmapInputs ==
  {[raw_table |-> t, core_spill_mask |-> MaskOf(c), fp_spill_mask |-> MaskOf(f)] :
     t \in VmapTables, c \in SUBSET CoreBits, f \in SUBSET FpBits}

\* OatDumper::Dump reaches a class with methods; its OatDumper is
\* constructed and there is no ImageDumper.
InitDump ==
  /\ thumb2 = FALSE
  /\ num_dex = MaxDexFiles
  /\ offsets_ = {OatSize}
  /\ pc = "ready"
  /\ dex_i = 0
  /\ class_i = 0
  /\ method_i = 0
  /\ last_insert = OatEnd - OatBegin
  /\ ret = NoCall
  /\ first_call = NoCall
  /\ NoImage
  /\ dpc = "class"
  /\ class_method_index = 0
  /\ num_methods = MaxOatMethods
  /\ section = NoSection
  /\ scan = NoScan
  /\ NoOutliers

\* DumpOatClass's loops find a next method: DumpOatMethod writes the
\* method's head and calls DumpMappingTable.  A read behind the stored
\* words finds a stray word or faults.
DumpOatMethod ==
  /\ dpc = "class"
  /\ class_method_index < num_methods
  /\ \E t \in MappingTables, code \in DumpCodePtrs, stray \in StrayWords,
        faults \in BOOLEAN :
       LET behind == LastIndexRead(t, code) >= Len(t.words)
       IN  /\ faults => behind
           /\ ~behind => stray = 0
           /\ section' = [kind |-> "mapping_table",
                          in |-> [raw_table |-> t, code |-> code],
                          os |-> IF faults THEN << >>
                                 ELSE DumpMappingTable(t, code, stray),
                          last_read |-> LastIndexRead(t, code)]
           /\ dpc' = IF faults THEN "segv" ELSE "vmap"
  /\ UNCHANGED <<class_method_index, num_methods, scan>>
  /\ UNCHANGED <<oatvars, imgvars, outvars>>

\* DumpOatMethod calls DumpVmap: the NULL test, and the head of the line.
DumpVmap ==
  /\ dpc = "vmap"
  /\ \E m \in VmapInputs :
       /\ section' = [kind |-> "vmap_table", in |-> m, os |-> << >>]
       /\ dpc' = IF m.raw_table.null THEN "gc_map" ELSE "for"
  /\ scan' = NoScan
  /\ UNCHANGED <<class_method_index, num_methods>>
  /\ UNCHANGED <<oatvars, imgvars, outvars>>

\* DumpVmap, the head of the for loop: the locals of one table entry, or
\* the end of the table.
VmapFor ==
  /\ dpc = "for"
  /\ IF scan.i < Len(section.in.raw_table.table)
       THEN /\ scan' = [i |-> scan.i, matches |-> 0, spill_shifts |-> 0,
                        spill_mask |-> section.in.core_spill_mask,
                        processing_fp |-> FALSE]
            /\ dpc' = "while"
       ELSE /\ scan' = NoScan
            /\ dpc' = "gc_map"
  /\ UNCHANGED <<class_method_index, num_methods, section>>
  /\ UNCHANGED <<oatvars, imgvars, outvars>>

\* The while loop with a scan that gives up quietly: when both masks are
\* used up the entry is written with the register reached so far.
VmapWhile_ReportsAnyway ==
  /\ dpc = "while"
  /\ IF scan.matches # scan.i + 1 /\ ~(scan.spill_mask = 0 /\ scan.processing_fp)
       THEN LET switch == scan.spill_mask = 0
                spill_mask == IF switch THEN section.in.fp_spill_mask
                                        ELSE scan.spill_mask
            IN  /\ scan' = [scan EXCEPT
                              !.processing_fp = switch \/ @,
                              !.matches = @ + (spill_mask % 2),
                              !.spill_mask = spill_mask \div 2,
                              !.spill_shifts = @ + 1]
                /\ UNCHANGED <<dpc, section>>
       ELSE /\ section' = [section EXCEPT !.os = Append(@,
                             [dex_reg |-> section.in.raw_table.table[scan.i + 1],
                              fr |-> FALSE, reg |-> scan.spill_shifts - 1])]
            /\ scan' = [scan EXCEPT !.i = @ + 1]
            /\ dpc' = "for"
  /\ UNCHANGED <<class_method_index, num_methods>>
  /\ UNCHANGED <<oatvars, imgvars, outvars>>

\* DumpVmap, one test of the while loop: a pass through its body, the
\* failure of the CHECK in it, or the write of the entry after it.
VmapWhile ==
  /\ dpc = "while"
  /\ IF scan.matches # scan.i + 1
       THEN IF scan.spill_mask = 0 /\ scan.processing_fp
              THEN /\ dpc' = "aborted"
                   /\ UNCHANGED <<scan, section>>
              ELSE LET switch == scan.spill_mask = 0
                       spill_mask == IF switch THEN section.in.fp_spill_mask
                                               ELSE scan.spill_mask
                   IN  /\ scan' = [scan EXCEPT
                                     !.processing_fp = switch \/ @,
                                     !.matches = @ + (spill_mask % 2),
                                     !.spill_mask = spill_mask \div 2,
                                     !.spill_shifts = @ + 1]
                       /\ UNCHANGED <<dpc, section>>
       ELSE LET arm_reg == scan.spill_shifts - 1
                dex_reg == section.in.raw_table.table[scan.i + 1]
            IN  /\ section' = [section EXCEPT !.os = Append(@,
                                 IF arm_reg < 16
                                   THEN [dex_reg |-> dex_reg, fr |-> FALSE,
                                         reg |-> arm_reg]
                                   ELSE [dex_reg |-> dex_reg, fr |-> TRUE,
                                         reg |-> arm_reg - 16])]
                /\ scan' = [scan EXCEPT !.i = @ + 1]
                /\ dpc' = "for"
  /\ UNCHANGED <<class_method_index, num_methods>>
  /\ UNCHANGED <<oatvars, imgvars, outvars>>

\* DumpOatMethod calls DumpGcMap (for a method with code) and writes the
\* code and the invoke stub; DumpOatClass counts the method.
DumpGcMapAndCode ==
  /\ dpc = "gc_map"
  /\ \E map \in GcMaps, code \in DumpCodePtrs \ {NULL} :
       section' = [kind |-> "gc_map", in |-> [gc_map_raw |-> map, code |-> code],
                   os |-> DumpGcMap(code, map)]
  /\ class_method_index' = class_method_index + 1
  /\ dpc' = "class"
  /\ UNCHANGED <<num_methods, scan>>
  /\ UNCHANGED <<oatvars, imgvars, outvars>>

\* DumpOatClass's loops have no further method.
DumpOatClassEnd ==
  /\ dpc = "class"
  /\ class_method_index = num_methods
  /\ dpc' = "finished"
  /\ UNCHANGED <<class_method_index, num_methods, section, scan>>
  /\ UNCHANGED <<oatvars, imgvars, outvars>>

NextDump ==
  \/ DumpOatMethod
  \/ DumpVmap
  \/ VmapFor
  \/ VmapWhile
  \/ DumpGcMapAndCode
  \/ DumpOatClassEnd

SpecDump == InitDump /\ [][NextDump]_vars

\* DumpVmap has been entered with a table: the for loop is about to start.
InitVmap ==
  /\ thumb2 = FALSE
  /\ num_dex = MaxDexFiles
  /\ offsets_ = {OatSize}
  /\ pc = "ready"
  /\ dex_i = 0
  /\ class_i = 0
  /\ method_i = 0
  /\ last_insert = OatEnd - OatBegin
  /\ ret = NoCall
  /\ first_call = NoCall
  /\ NoImage
  /\ dpc = "for"
  /\ class_method_index = 0
  /\ num_methods = 1
  /\ \E m \in VmapInputs :
       /\ ~m.raw_table.null
       /\ section = [kind |-> "vmap_table", in |-> m, os |-> << >>]
  /\ scan = NoScan
  /\ NoOutliers

\* The loops of DumpVmap.
NextVmap ==
  \/ VmapFor
  \/ VmapWhile

SpecVmap == InitVmap /\ [][NextVmap]_vars

\* DumpVmap runs on one thread that nothing suspends: a loop that can take
\* a step takes it.
FairSpecVmap == SpecVmap /\ WF_vars(NextVmap)

\* ------------------------------------------------------- Stats::DumpOutliers

\* Samples of a vector with no outlier, with outliers at one standard
\* deviation only, and with outliers at three standard deviations.
FlatSamples == 3
FewSamples == 52
ManySamples == 230

\* The size of a method of ordinary size, and the expansion of one.
OrdinarySize == 12
OrdinaryExpansion == 1

\* An expansion is a double, oat_code_size / dex_instruction_bytes; the
\* model keeps it as a whole number of 1/ExpansionUnit.
ExpansionUnit == 10

\* n samples of which the first m exceed the ordinary value by n.
SampleVector(n, m, ordinary) ==
  [j \in 1..n |-> IF j <= m THEN ordinary + n ELSE ordinary]

\* The (samples, outliers) of the vectors DumpOutliers is given: no method,
\* one method, two, methods of one size, 25 outliers among 52 and 22
\* outliers among 230.
SampleShapes ==
  {<<0, 0>>, <<1, 0>>, <<2, 1>>, <<FlatSamples, 0>>, <<FewSamples, 25>>,
   <<ManySamples, 22>>}

RECURSIVE SumRange(_, _, _)
\* vec[lo] + ... + vec[hi], added up by halves.
SumRange(vec, lo, hi) ==
  IF lo > hi THEN 0
  ELSE IF lo = hi THEN vec[lo]
  ELSE LET mid == (lo + hi) \div 2
       IN  SumRange(vec, lo, mid) + SumRange(vec, mid + 1, hi)

\* The loop of lines 971-978 over the n samples: the sum of the samples.
\* The sums are size_t: adding a double to one drops the fraction of the
\* result, which is the fraction of the sample (unit is 1 for a size).
SumOf(vec, n, unit) == SumRange([j \in 1..n |-> vec[j] \div unit], 1, n)

\* The same loop: the sum of their squares.
SumOfSquares(vec, n, unit) ==
  SumRange([j \in 1..n |-> (vec[j] * vec[j]) \div (unit * unit)], 1, n)

\* The product of two values below 2^16, as the halves of a 32-bit word.
Mul16(x, y) ==
  LET p1 == x * (y \div 256)
      p0 == x * (y % 256)
      s == (p1 % 256) * 256 + p0
  IN  [hi |-> (p1 \div 256) + (s \div 65536), lo |-> s % 65536]

\* a * b in size_t arithmetic, which is 32 bits wide (the file casts
\* pointers to uint32_t): the product modulo 2^32, as the halves of the
\* word.  a and b are below 2^31.
MulWrap(a, b) ==
  LET ah == a \div 65536
      al == a % 65536
      bh == b \div 65536
      bl == b % 65536
      ll == Mul16(al, bl)
  IN  [hi |-> (ll.hi + Mul16(ah, bl).lo + Mul16(al, bh).lo) % 65536,
       lo |-> ll.lo]

\* u > v for two 32-bit words.
Above(u, v) == u.hi > v.hi \/ (u.hi = v.hi /\ u.lo > v.lo)

\* The tests of lines 993-996 (size) and 1032-1035 (expansion) on the
\* sample cur at i standard deviations.  m is the metric: its mean (a whole
\* number), its variance num / den, its unit, and whether it is the size.
\* cur_var is a size_t in both sweeps: the expansion's deviation loses its
\* fraction before it is squared.  The size sweep compares two size_t
\* products; the expansion sweep compares the square with a double (the
\* deviations of the model are below 2^15, and their squares do not wrap).
IsOutlier(cur, i, m) ==
  /\ cur > m.mean * m.unit
  /\ LET cur_var == (cur - m.mean * m.unit) \div m.unit
     IN  IF m.integral
           THEN Above(MulWrap(cur_var, cur_var), MulWrap(i * i, m.num))
           ELSE cur_var * cur_var * m.den > i * i * m.num

\* Lines 1011 and 1051 with the sample left in the vector.
Consume_KeepsTheSample(vec, j) == vec

\* Lines 1011 and 1051: `method_outlier_size[j] = 0`, "don't consider this
\* method again" (j from 0).
Consume(vec, j) == [vec EXCEPT ![j + 1] = 0]

\* The operands of the size sweep.
SizeMetric(sw) ==
  [mean |-> sw.size_mean, num |-> sw.size_variance, den |-> 1, unit |-> 1,
   integral |-> TRUE]

\* The operands of the expansion sweep.
ExpansionMetric(sw) ==
  [mean |-> sw.expansion_mean, num |-> sw.expansion_variance.num,
   den |-> sw.expansion_variance.den, unit |-> ExpansionUnit,
   integral |-> FALSE]

\* Vectors of a few methods: one large method among five whose expansion
\* is 2.9, and one of 3600 bytes among six with expansions 5.9 and 1.1.
SampleVectors ==
  {[size |-> <<10, 10, 10, 10, 1000>>, expansion |-> <<10, 10, 10, 10, 29>>],
   [size |-> <<10, 10, 10, 10, 3600, 10>>,
    expansion |-> <<10, 10, 10, 10, 59, 11>>]}

\* n expansions, the first m of them outliers, as whole numbers.
ExpansionVector(n, m) ==
  [j \in 1..n |-> ExpansionUnit * SampleVector(n, m, OrdinaryExpansion)[j]]

\* The jump that leaves the sweep at two standard deviations.
NextDeviations_StaysAtTwo(i, jumped) == IF jumped THEN 2 ELSE i - 1

\* The i the outer loop tests next: `i = 2; break;` is followed by the
\* loop's own i--.
NextDeviations(i, jumped) == (IF jumped THEN 2 ELSE i) - 1

\* Stats::Dump calls DumpOutliers on the vectors ComputeOutliers has
\* filled.
InitOutliers ==
  /\ thumb2 = FALSE
  /\ num_dex = MaxDexFiles
  /\ offsets_ = {OatSize}
  /\ pc = "ready"
  /\ dex_i = 0
  /\ class_i = 0
  /\ method_i = 0
  /\ last_insert = OatEnd - OatBegin
  /\ ret = NoCall
  /\ first_call = NoCall
  /\ ipc = "outliers"
  /\ already_seen_ = {}
  /\ calls = << >>
  /\ callbacks = << >>
  /\ emitted = <<"summary", "breakdown", "totals">>
  /\ heap_bitmap_lock_ = {"reader"}
  /\ NoDump
  /\ opc = "means"
  /\ sweep = NoSweep
  /\ \/ \E shape \in SampleShapes :
          \E e \in {0, shape[2]} :
            samples = [size |-> SampleVector(shape[1], shape[2], OrdinarySize),
                       expansion |-> ExpansionVector(shape[1], e)]
     \/ samples \in SampleVectors
  /\ stats_ = [NewStats EXCEPT !.oat_file_bytes = OatSize,
                               !.method_outlier_size = samples.size,
                               !.method_outlier_expansion = samples.expansion]

\* DumpOutliers, lines 966-986: the sums, the means and the variances.  An
\* integer division by n = 0 or by n - 1 = 0 traps or yields some value,
\* as the platform has it; the value is not used by any comparison.
ComputeMeans ==
  /\ opc = "means"
  /\ LET n == Len(stats_.method_outlier_size)
         sum_of_sizes == SumOf(stats_.method_outlier_size, n, 1)
         sum_of_sizes_squared == SumOfSquares(stats_.method_outlier_size, n, 1)
         sum_of_expansion ==
           SumOf(stats_.method_outlier_expansion, n, ExpansionUnit)
         sum_of_expansion_squared ==
           SumOfSquares(stats_.method_outlier_expansion, n, ExpansionUnit)
     IN  IF n < 2
           THEN \E traps \in BOOLEAN :
                  IF traps
                    THEN /\ opc' = "sigfpe"
                         /\ ipc' = "sigfpe"
                         /\ UNCHANGED sweep
                    ELSE /\ opc' = "size_sweep"
                         /\ sweep' = [NoSweep EXCEPT
                              !.i = 100,
                              !.size_mean = IF n = 0 THEN 0 ELSE sum_of_sizes,
                              !.expansion_mean = IF n = 0 THEN 0 ELSE sum_of_expansion]
                         /\ UNCHANGED ipc
           ELSE LET size_mean == sum_of_sizes \div n
                    expansion_mean == sum_of_expansion \div n
                IN  /\ opc' = "size_sweep"
                    /\ sweep' = [NoSweep EXCEPT
                         !.i = 100,
                         !.size_mean = size_mean,
                         !.size_variance =
                            (sum_of_sizes_squared - sum_of_sizes * size_mean)
                              \div (n - 1),
                         !.expansion_mean = expansion_mean,
                         !.expansion_variance =
                            [num |-> sum_of_expansion_squared
                                       - sum_of_expansion * expansion_mean,
                             den |-> n - 1]]
                    /\ UNCHANGED ipc
  /\ UNCHANGED <<oatvars, already_seen_, stats_, calls, callbacks, emitted>>
  /\ UNCHANGED <<heap_bitmap_lock_, dumpvars, samples>>

\* One test of the inner loop of a sweep at i standard deviations, sample
\* j (from 0), or the end of the pass when the samples are through.  A
\* pass is recorded when it ends, with whether it ended by the break; a
\* sample is logged when it is reported and when it is counted as skipped.
SweepStep(vec, m, sw) ==
  IF sw.j >= Len(vec)
    THEN [vec |-> vec,
          sw |-> [sw EXCEPT
                    !.i = NextDeviations(sw.i, FALSE), !.j = 0,
                    !.evaluated = Append(@, [k |-> sw.i, jumped |-> FALSE])]]
  ELSE IF IsOutlier(vec[sw.j + 1], sw.i, m)
         THEN IF sw.dumped_values > 20
                THEN IF sw.i = 1
                       THEN [vec |-> vec,
                             sw |-> [sw EXCEPT
                               !.skipped_values = @ + 1, !.j = @ + 1,
                               !.log = Append(@, [j |-> sw.j, i |-> sw.i,
                                                  skipped |-> TRUE])]]
                       ELSE [vec |-> vec,
                             sw |-> [sw EXCEPT
                               !.i = NextDeviations(sw.i, TRUE), !.j = 0,
                               !.evaluated =
                                  Append(@, [k |-> sw.i, jumped |-> TRUE])]]
                ELSE [vec |-> Consume(vec, sw.j),
                      sw |-> [sw EXCEPT
                        !.dumped_values = @ + 1, !.j = @ + 1,
                        !.log = Append(@, [j |-> sw.j, i |-> sw.i,
                                           skipped |-> FALSE])]]
         ELSE [vec |-> vec, sw |-> [sw EXCEPT !.j = @ + 1]]

\* One step of the loops of the size sweep (988-1017).
SizeSweepStep ==
  /\ opc = "size_sweep"
  /\ LET step == SweepStep(stats_.method_outlier_size, SizeMetric(sweep), sweep)
     IN  /\ stats_' = [stats_ EXCEPT !.method_outlier_size = step.vec]
         /\ sweep' = step.sw
         /\ opc' = IF step.sw.i > 0 THEN "size_sweep" ELSE "size_end"
  /\ UNCHANGED <<oatvars, ipc, already_seen_, calls, callbacks, emitted>>
  /\ UNCHANGED <<heap_bitmap_lock_, dumpvars, samples>>

\* Lines 1018-1026: the skipped line of the size sweep, and the counters
\* of the expansion sweep.
SizeSweepEnd ==
  /\ opc = "size_end"
  /\ sweep' = [sweep EXCEPT !.i = 10, !.dumped_values = 0,
                            !.skipped_values = 0, !.evaluated = << >>,
                            !.log = << >>]
  /\ opc' = "expansion_sweep"
  /\ UNCHANGED <<oatvars, imgvars, dumpvars, samples>>

\* One step of the loops of the expansion sweep (1027-1057).
ExpansionSweepStep ==
  /\ opc = "expansion_sweep"
  /\ LET step == SweepStep(stats_.method_outlier_expansion,
                           ExpansionMetric(sweep), sweep)
     IN  /\ stats_' = [stats_ EXCEPT !.method_outlier_expansion = step.vec]
         /\ sweep' = step.sw
         /\ opc' = IF step.sw.i > 0 THEN "expansion_sweep" ELSE "expansion_end"
  /\ UNCHANGED <<oatvars, ipc, already_seen_, calls, callbacks, emitted>>
  /\ UNCHANGED <<heap_bitmap_lock_, dumpvars, samples>>

\* Lines 1058-1062: the skipped line of the expansion sweep; DumpOutliers
\* and Stats::Dump return.
ExpansionSweepEnd ==
  /\ opc = "expansion_end"
  /\ opc' = "done"
  /\ ipc' = "dumped"
  /\ emitted' = Append(emitted, "outliers")
  /\ UNCHANGED <<oatvars, already_seen_, stats_, calls, callbacks>>
  /\ UNCHANGED <<heap_bitmap_lock_, dumpvars, sweep, samples>>

NextOutliers ==
  \/ ComputeMeans
  \/ SizeSweepStep
  \/ SizeSweepEnd
  \/ ExpansionSweepStep
  \/ ExpansionSweepEnd

SpecOutliers == InitOutliers /\ [][NextOutliers]_vars

\* ------------------------------------------------------- claims C1..C6

Constructed == pc \in {"ready", "aborted"}

InOatRange(a) == OatBegin <= a /\ a <= OatEnd

\* o1 < o2 are neighbours in the registry.
Adjacent(o1, o2) ==
  /\ o1 \in offsets_
  /\ o2 \in offsets_
  /\ o1 < o2
  /\ \A o \in offsets_ : ~(o1 < o /\ o < o2)

\* C1: a ComputeSize call with an address inside the oat file, whose offset
\* has a registered offset above it, returns the distance from the queried
\* offset to the smallest registered offset strictly above it; in
\* particular, queried at a registered offset o1 whose neighbour in the
\* registry is o2, it returns o2 - o1.
C1_SizeIsDistanceToNext ==
  /\ (ret # NoCall /\ InOatRange(ret.addr)
        /\ \E o \in offsets_ : o > ret.addr - OatBegin)
       => /\ ~ret.aborted
          /\ \E o2 \in offsets_ :
               /\ o2 > ret.addr - OatBegin
               /\ \A o \in offsets_ : ~(ret.addr - OatBegin < o /\ o < o2)
               /\ ret.size = o2 - (ret.addr - OatBegin)
  /\ \A o1 \in offsets_ : \A o2 \in offsets_ :
       (Adjacent(o1, o2) /\ InOatRange(OatBegin + o1) /\ ret.addr = OatBegin + o1)
         => (~ret.aborted /\ ret.size = o2 - o1)

\* C1 witness: a call at a registered offset that has at least two
\* registered offsets above it, so that "the smallest" is a choice.
C1_Witness ==
  /\ ret # NoCall
  /\ InOatRange(ret.addr)
  /\ ret.addr - OatBegin \in offsets_
  /\ Cardinality(UpperBound(offsets_, ret.addr - OatBegin)) >= 2
  /\ ~ret.aborted
  /\ ret.size >= 1

\* C2: ComputeSize never changes the registry (once the dumper is
\* constructed the registry stays as it is, whatever is called), and every
\* call whose address is that of the first call returns what the first
\* call returned (calls change nothing, so any call may be the first).
C2_ComputeSizeIdempotent ==
  /\ [](ret.addr = first_call.addr =>
          (ret.aborted = first_call.aborted /\ ret.size = first_call.size))
  /\ [][Constructed => offsets_' = offsets_]_vars

\* C2 witness: the first call's address, inside the oat file, is queried
\* again and answered with a size.
C2_Witness ==
  /\ ret # NoCall
  /\ ret.again
  /\ InOatRange(ret.addr)
  /\ ~ret.aborted
  /\ ret.size >= 1

\* C3 (as claimed): once the dumper is constructed, no address of
\* [OatBegin, OatEnd] makes ComputeSize's CHECK fail.
C3_CheckNeverFailsInRange ==
  Constructed => \A a \in OatBegin..OatEnd : ~ComputeSize(offsets_, a).aborted

\* C4: a ComputeSize call with an address inside the oat file for which the
\* registry holds no strictly greater offset aborts: the dumper is dead and
\* no size was returned.
C4_NoSuccessorAborts ==
  (ret # NoCall /\ InOatRange(ret.addr)
     /\ ~\E o \in offsets_ : o > ret.addr - OatBegin)
    => (ret.aborted /\ pc = "aborted")

\* C4 witness: a call, inside the oat file, that found no greater offset.
C4_Witness ==
  /\ ret # NoCall
  /\ InOatRange(ret.addr)
  /\ UpperBound(offsets_, ret.addr - OatBegin) = {}
  /\ pc = "aborted"

\* C5 (as claimed): every ComputeSize call, whatever its address, either
\* returns a positive size or aborts.
C5_NeverReturnsZero ==
  ret # NoCall => (ret.aborted \/ ret.size > 0)

\* C5 (amended): a call with an address inside [OatBegin, OatEnd] either
\* aborts or returns a positive size; a call with an address outside it
\* (NULL included) returns 0 and does not abort.
C5_ZeroOnlyOutsideTheFile ==
  ret # NoCall =>
    IF InOatRange(ret.addr)
      THEN ret.aborted \/ ret.size > 0
      ELSE ~ret.aborted /\ ret.size = 0

\* C5 witness: a call with NULL, after a first call with an address inside
\* the oat file that returned a positive size.
C5_Witness ==
  /\ ret # NoCall
  /\ ret.addr = NULL
  /\ ret.size = 0
  /\ InOatRange(first_call.addr)
  /\ first_call.size > 0

\* C6: once the constructor has returned, the registry holds the offset of
\* the oat file's end, and that insertion was the last one: every other
\* offset was inserted before it and nothing is inserted after it.
C6_EndOffsetInsertedLast ==
  Constructed => (OatEnd - OatBegin \in offsets_ /\ last_insert = OatEnd - OatBegin)

\* C6 witness: a constructed dumper over several dex files whose registry
\* holds offsets of methods beside the end offset.
C6_Witness ==
  /\ pc = "ready"
  /\ num_dex = MaxDexFiles
  /\ Cardinality(offsets_) >= 4


\* ------------------------------------------------------- claims C7..C10

\* The statistics counter that the ComputeOatSize call at `site` feeds.
SiteCounter(site) ==
  CASE site = "gc_map" -> "gc_map_bytes"
    [] site = "mapping_table" -> "pc_mapping_table_bytes"
    [] site = "vmap_table" -> "vmap_table_bytes"
    [] site = "code" -> "managed_code_bytes"
    [] site = "native_invoke_stub" -> "managed_to_native_code_bytes"
    [] site \in {"invoke_stub", "native_code"} -> "native_to_managed_code_bytes"

\* The bytes Callback attributes to a region at a site: the size stored
\* in front of code, ComputeSize's answer for tables and stubs.
RegionBytes(site, addr, size) ==
  IF site \in {"code", "native_code"} THEN CodeSizeAt(addr) ELSE size

DedupCounters ==
  {"gc_map_bytes", "pc_mapping_table_bytes", "vmap_table_bytes",
   "managed_code_bytes", "managed_to_native_code_bytes",
   "native_to_managed_code_bytes"}

\* C7: over the ComputeOatSize calls of one report, first_occurrence is
\* true for exactly the first call with each distinct address and false
\* for every later call with it, NULL and addresses outside the oat file
\* included.
C7_FirstOccurrenceOncePerAddress ==
  \A i \in 1..Len(calls) :
    calls[i].first <=> (\A j \in 1..(i - 1) : calls[j].addr # calls[i].addr)

\* NULL has been asked for twice and an address outside the oat file once.
C7_Witness ==
  /\ \E i, j \in 1..Len(calls) :
       i < j /\ calls[i].addr = NULL /\ calls[j].addr = NULL /\ ~calls[j].first
  /\ \E k \in 1..Len(calls) : calls[k].addr > OatEnd /\ calls[k].first

RECURSIVE SumFirstOccurrences(_, _)
\* The bytes of the first n calls that fed `counter` and were the first
\* call of the whole report with their address.
SumFirstOccurrences(counter, n) ==
  IF n = 0 THEN 0
  ELSE SumFirstOccurrences(counter, n - 1)
         + (IF /\ SiteCounter(calls[n].site) = counter
               /\ calls[n].first
               /\ ~calls[n].aborted
              THEN RegionBytes(calls[n].site, calls[n].addr, calls[n].size)
              ELSE 0)

\* The addresses referenced for `counter`.
ReferencedFor(counter) ==
  {calls[i].addr : i \in {k \in 1..Len(calls) :
                            /\ SiteCounter(calls[k].site) = counter
                            /\ ~calls[k].aborted}}

\* The site at which `addr` was referenced for `counter`.
SiteOf(counter, addr) ==
  calls[CHOOSE i \in 1..Len(calls) :
          SiteCounter(calls[i].site) = counter /\ calls[i].addr = addr].site

RECURSIVE SumDistinct(_, _)
\* The bytes of the regions starting at `addrs`, each counted once.
SumDistinct(counter, addrs) ==
  IF addrs = {} THEN 0
  ELSE LET a == CHOOSE x \in addrs : TRUE
       IN  RegionBytes(SiteOf(counter, a), a, ComputeSize(offsets_, a).size)
             + SumDistinct(counter, addrs \ {a})

\* C8 as stated: every deduplicated total is the sum of the sizes of the
\* distinct addresses referenced for its own category, also when an
\* address is referenced under two categories.
C8_TotalsCountEachCategorysAddresses ==
  \A counter \in DedupCounters :
    stats_[counter] = SumDistinct(counter, ReferencedFor(counter))

\* C8: every deduplicated total is the sum of the sizes of the addresses
\* whose first query of the whole report was made for that category; an
\* address referenced under two categories counts only for the category
\* that asked first.
C8_TotalsCountFirstQueries ==
  \A counter \in DedupCounters :
    stats_[counter] = SumFirstOccurrences(counter, Len(calls))

\* One region of the oat file was referenced for two different totals.
C8_Witness ==
  \E i, j \in 1..Len(calls) :
    /\ i < j
    /\ calls[i].addr = calls[j].addr
    /\ SiteCounter(calls[i].site) # SiteCounter(calls[j].site)
    /\ calls[i].size > 0
    /\ ~calls[j].aborted

RECURSIVE SumManagedCode(_)
\* The code size of every managed method among the first n objects
\* Callback has dumped.
SumManagedCode(n) ==
  IF n = 0 THEN 0
  ELSE SumManagedCode(n - 1)
         + (IF callbacks[n].in_space /\ callbacks[n].kind = "managed"
              THEN GetOatCodeSize(callbacks[n], thumb2)
              ELSE 0)

\* C9: managed_code_bytes_ignoring_deduplication is the sum of the code
\* size over every callback that dumped a non-native, non-abstract
\* compiled method, whether or not its code was seen before, and so is
\* never below managed_code_bytes.
C9_IgnoringDeduplicationCountsEveryMethod ==
  /\ stats_.managed_code_bytes_ignoring_deduplication
       = SumManagedCode(Len(callbacks))
  /\ stats_.managed_code_bytes_ignoring_deduplication
       >= stats_.managed_code_bytes

\* Two methods shared their code: the two counters differ.
C9_Witness ==
  /\ stats_.managed_code_bytes > 0
  /\ stats_.managed_code_bytes_ignoring_deduplication > stats_.managed_code_bytes

\* C10: Stats::Dump aborts when file_bytes differs from header_bytes +
\* object_bytes + alignment_bytes, and then the breakdown, the totals and
\* the outlier summary are not written; when the identity holds the dump
\* goes on to them (and DumpOutliers writes its summary unless it traps).
C10_FileBytesMismatchIsFatal ==
  /\ ipc = "dump_aborted" =>
       /\ ~FileBytesReconcile(stats_)
       /\ emitted = <<"summary">>
  /\ ipc = "dumped" =>
       /\ FileBytesReconcile(stats_)
       /\ emitted = <<"summary", "breakdown", "totals", "outliers">>
  /\ ipc = "sigfpe" =>
       /\ FileBytesReconcile(stats_)
       /\ emitted = <<"summary", "breakdown", "totals">>
  /\ ipc \in {"objects", "flush", "flushed", "walk", "large_objects", "aborted"}
       => emitted = << >>

\* The dump died on the identity after objects had been walked.
C10_Witness ==
  /\ ipc = "dump_aborted"
  /\ Len(callbacks) > 0
  /\ stats_.object_bytes > 0


\* ------------------------------------------------------- claims C11..C20

RECURSIVE BitsFrom(_, _)
\* The positions of the set bits of mask, its lowest bit being bit b.
BitsFrom(mask, b) ==
  IF mask = 0 THEN {}
  ELSE (IF mask % 2 = 1 THEN {b} ELSE {}) \cup BitsFrom(mask \div 2, b + 1)

\* The positions of the set bits of a uint32.
BitsOf(mask) == BitsFrom(mask, 0)

\* The set bits of the 64-bit stream made of the core mask's bits 0..31
\* followed by the fp mask's bits 0..31.
StreamBits(core, fp) == BitsOf(core) \cup {32 + b : b \in BitsOf(fp)}

\* The n-th set bit (n from 1) of a stream with at least n set bits.
NthSetBit(bits, n) ==
  CHOOSE p \in bits : Cardinality({q \in bits : q < p}) = n - 1

\* The register the stream assigns to table position n (from 1).
StreamRegister(core, fp, n) ==
  LET p == NthSetBit(StreamBits(core, fp), n)
  IN  IF p < 32 THEN [fr |-> FALSE, reg |-> p] ELSE [fr |-> TRUE, reg |-> p - 32]

\* C11: DumpVmap reports entry i with the (i+1)-th set bit of the stream
\* core mask bits 0..31 then fp mask bits 0..31: core bit b as
\* general-purpose register b, fp bit b as floating-point register b.
C11_VmapEntryIsNthSpilledRegister ==
  section.kind = "vmap_table" =>
    \A n \in 1..Len(section.os) :
      LET r == StreamRegister(section.in.core_spill_mask,
                              section.in.fp_spill_mask, n)
      IN  /\ section.os[n].dex_reg = section.in.raw_table.table[n]
          /\ section.os[n].fr = r.fr
          /\ section.os[n].reg = r.reg

\* The set bits of both masks of the vmap section being written.
SpilledRegisters ==
  Cardinality(StreamBits(section.in.core_spill_mask, section.in.fp_spill_mask))

\* C12: the bit scan of DumpVmap terminates for every pair of masks and
\* every table position: it finds i+1 set bits, or fails with an error
\* when the two masks hold fewer; an entry without a set bit of its own is
\* never reported.
C12_VmapScanTerminates ==
  /\ (dpc = "while") ~> (dpc \in {"for", "aborted"})
  /\ [](section.kind = "vmap_table" => Len(section.os) <= SpilledRegisters)
  /\ [](dpc = "aborted" => /\ scan.i >= SpilledRegisters
                           /\ Len(section.os) = scan.i)

\* The scan of an entry failed after earlier entries had been reported.
C12_Witness ==
  /\ dpc = "aborted"
  /\ SpilledRegisters > 0
  /\ Len(section.os) = SpilledRegisters

\* C13: a vmap table with more entries than set spill-mask bits is an
\* error of its unit only: the report is not aborted and goes on with the
\* following methods.
C13_DecodingErrorIsUnitScoped ==
  (/\ section.kind = "vmap_table"
   /\ ~section.in.raw_table.null
   /\ Len(section.in.raw_table.table) > SpilledRegisters)
    => dpc # "aborted"


\* A mapping table has been dumped for a method that has a table and code.
MappingTableDumped ==
  /\ section.kind = "mapping_table"
  /\ ~section.in.raw_table.null
  /\ section.in.code # NULL
  /\ dpc # "segv"

\* The k-th pair stored in the dumped table (k from 1), as it is written.
StoredPair(k) ==
  [native_pc |-> section.in.code + section.in.raw_table.words[2 * k - 1],
   dex_pc |-> section.in.raw_table.words[2 * k]]

\* The pairs written, whatever their group.
RECURSIVE Flatten(_)
Flatten(groups) ==
  IF groups = << >> THEN << >> ELSE Head(groups) \o Flatten(Tail(groups))

\* C14: for header fields (total, forward) with 0 <= forward <= total,
\* DumpMappingTable writes every stored pair once, in stored order, in two
\* groups: the first forward/2 pairs, then all the others; forward = 0
\* gives an empty first group and forward = total an empty second group.
C14_TwoGroupsSplitAtForward ==
  LET t == section.in.raw_table
  IN  (/\ MappingTableDumped
       /\ t.length % 2 = 0
       /\ t.pc_to_dex_entries % 2 = 0
       /\ t.pc_to_dex_entries <= t.length)
        => /\ Len(section.os) = 2
           /\ section.os[1] = [k \in 1..(t.pc_to_dex_entries \div 2) |-> StoredPair(k)]
           /\ Flatten(section.os) = [k \in 1..(t.length \div 2) |-> StoredPair(k)]

\* C15 as stated: a header (T, F) followed by T stored pairs is decoded
\* to T pairs, the first F in the forward group and T - F in the reverse
\* group.
C15_HeaderCountsPairs ==
  LET t == section.in.raw_table
  IN  (/\ MappingTableDumped
       /\ Len(t.words) = 2 * t.length
       /\ t.pc_to_dex_entries % 2 = 0
       /\ 2 <= t.pc_to_dex_entries
       /\ t.pc_to_dex_entries <= t.length)
        => /\ Len(section.os) = 2
           /\ Len(section.os[1]) = t.pc_to_dex_entries
           /\ Len(section.os[2]) = t.length - t.pc_to_dex_entries

\* C15: the header counts words, two to a pair.  A header (T, F) with T
\* and F even and 2 <= F <= T is decoded to T/2 pairs in stored order, the
\* first F/2 in the forward group and (T - F)/2 in the reverse group.
C15_HeaderCountsWords ==
  LET t == section.in.raw_table
  IN  (/\ MappingTableDumped
       /\ t.length % 2 = 0
       /\ t.pc_to_dex_entries % 2 = 0
       /\ 2 <= t.pc_to_dex_entries
       /\ t.pc_to_dex_entries <= t.length)
        => /\ Len(section.os) = 2
           /\ Len(section.os[1]) = t.pc_to_dex_entries \div 2
           /\ Len(section.os[2]) = (t.length - t.pc_to_dex_entries) \div 2
           /\ Flatten(section.os) = [k \in 1..(t.length \div 2) |-> StoredPair(k)]

\* The table of T = 4, F = 2 followed by four pairs has been dumped: one
\* pair in each group.
C15_Witness ==
  /\ MappingTableDumped
  /\ section.in.raw_table.length = 4
  /\ section.in.raw_table.pc_to_dex_entries = 2
  /\ Len(section.in.raw_table.words) = 8
  /\ Len(section.os) = 2
  /\ Len(section.os[1]) = 1
  /\ Len(section.os[2]) = 1

\* C16: a table whose forward count exceeds its total, or whose total is
\* odd, is refused with an error and no pair is written; no word at an
\* index >= the declared total is ever read.
C16_MalformedTableIsRefused ==
  LET t == section.in.raw_table
  IN  (section.kind = "mapping_table" /\ ~t.null /\ section.in.code # NULL)
        => /\ section.last_read < t.length
           /\ (t.pc_to_dex_entries > t.length \/ t.length % 2 = 1)
                => Flatten(section.os) = << >>


\* C17: for a map of E entries and register width W bytes DumpGcMap writes
\* E lines in entry order; line e carries code + nativePcOffset(e) and
\* lists, in increasing order, exactly the registers r of 0..8*W-1 whose
\* bit (r mod 8) of bitmap byte (r div 8) is 1.
C17_GcMapLinesListLiveRegisters ==
  LET map == section.in.gc_map_raw
  IN  (section.kind = "gc_map" /\ ~map.null)
        => /\ Len(section.os) = Len(map.entries)
           /\ \A e \in 1..Len(map.entries) :
                LET line == section.os[e]
                IN  /\ line.native_pc
                         = section.in.code + map.entries[e].native_pc_offset
                    /\ \A k \in 1..(Len(line.regs) - 1) :
                         line.regs[k] < line.regs[k + 1]
                    /\ {line.regs[k] : k \in 1..Len(line.regs)}
                         = {r \in 0..(8 * map.reg_width - 1) :
                              (r % 8) \in BitsOf(map.entries[e].bitmap[(r \div 8) + 1])}

\* A map of two entries and two bitmap bytes has been dumped, with a line
\* that lists registers of both bytes.
C17_Witness ==
  /\ section.kind = "gc_map"
  /\ ~section.in.gc_map_raw.null
  /\ section.in.gc_map_raw.reg_width = 2
  /\ Len(section.os) = 2
  /\ section.in.code # NULL
  /\ section.os[2].regs = <<0, 7, 8, 10>>


\* C18: with fewer than two samples DumpOutliers skips the outlier report:
\* it divides neither by n = 0 nor by n - 1 = 0, reports and skips
\* nothing, and returns normally.
C18_FewSamplesSkipTheReport ==
  Len(samples.size) < 2 =>
    /\ opc # "sigfpe"
    /\ sweep.dumped_values = 0
    /\ sweep.skipped_values = 0

\* x > c * v for naturals x, v and c > 0, without forming the product.
ExceedsProduct(x, c, v) == x > 0 /\ (x - 1) \div c >= v

\* The samples of vec that qualify at k standard deviations of the metric
\* m: the value exceeds the mean, and the squared deviation exceeds k * k
\* times the variance (in exact arithmetic).
QualifyingAt(vec, m, k) ==
  {j \in 1..Len(vec) :
     /\ vec[j] > m.mean * m.unit
     /\ LET dev == vec[j] - m.mean * m.unit
        IN  ExceedsProduct(dev * dev * m.den, k * k * m.unit * m.unit, m.num)}

\* C19, for the sweep over `vec` when it has ended: with m >= 25 samples
\* qualifying at k = 1 and none at a higher k, 20 are reported and m - 20
\* skipped.
CapAtTwenty(vec, metric) ==
  LET m == Cardinality(QualifyingAt(vec, metric, 1))
  IN  (m >= 25 /\ QualifyingAt(vec, metric, 2) = {})
        => /\ sweep.dumped_values = 20
           /\ sweep.skipped_values = m - 20

\* C19: no sweep of DumpOutliers reports more than 20 samples; when 25 or
\* more qualify at k = 1 and none at a higher k, exactly 20 are reported
\* and the others are counted as skipped.
C19_AtMostTwentyReported ==
  /\ sweep.dumped_values <= 20
  /\ opc = "size_end" =>
       CapAtTwenty(samples.size, SizeMetric(sweep))
  /\ opc = "expansion_end" =>
       CapAtTwenty(samples.expansion, ExpansionMetric(sweep))

\* The threshold the sweep evaluates after its idx-th pass: that of the
\* next recorded pass, or the one the outer loop is at.
ThresholdAfter(idx) ==
  IF idx < Len(sweep.evaluated) THEN sweep.evaluated[idx + 1].k ELSE sweep.i

\* C20 as stated: after a pass at k > 1 that met a qualifying sample with
\* the cap exceeded, the next threshold evaluated is k = 2.
C20_JumpContinuesAtTwo ==
  \A idx \in 1..Len(sweep.evaluated) :
    sweep.evaluated[idx].jumped =>
      /\ sweep.evaluated[idx].k > 1
      /\ ThresholdAfter(idx) = 2

\* C20: after a pass at k > 1 that met a qualifying sample with the cap
\* exceeded, the next threshold evaluated is k = 1: no threshold between
\* k and 1 is evaluated, k = 2 included (unless the pass itself was at
\* k = 2).  A pass that ran through is followed by k - 1.
C20_JumpContinuesAtOne ==
  \A idx \in 1..Len(sweep.evaluated) :
    IF sweep.evaluated[idx].jumped
      THEN /\ sweep.evaluated[idx].k > 1
           /\ ThresholdAfter(idx) = 1
      ELSE ThresholdAfter(idx) = sweep.evaluated[idx].k - 1

\* A sweep left its pass at three standard deviations by the jump, went on
\* at one and counted a sample as skipped there.
C20_Witness ==
  /\ opc \in {"size_end", "expansion_end"}
  /\ sweep.skipped_values > 0
  /\ \E idx \in 1..(Len(sweep.evaluated) - 1) :
       /\ sweep.evaluated[idx].jumped
       /\ sweep.evaluated[idx].k = 3
       /\ sweep.evaluated[idx + 1].k = 1

\* ------------------------------------------------------- claims C21..C26

\* C21: within one sweep of DumpOutliers no sample is reported twice, and a
\* sample that has been reported is not counted as skipped afterwards; the
\* counters are the numbers of samples reported and of samples skipped.
C21_ReportedOnceAndNeverSkipped ==
  /\ \A a, b \in 1..Len(sweep.log) :
       (a < b /\ ~sweep.log[a].skipped) => sweep.log[a].j # sweep.log[b].j
  /\ sweep.dumped_values
       = Cardinality({a \in 1..Len(sweep.log) : ~sweep.log[a].skipped})
  /\ sweep.skipped_values
       = Cardinality({a \in 1..Len(sweep.log) : sweep.log[a].skipped})

\* A sweep that reported 21 samples has left a pass by the jump and counts
\* a sample as skipped at one standard deviation.
C21_Witness ==
  /\ opc \in {"size_sweep", "expansion_sweep"}
  /\ sweep.dumped_values = 21
  /\ sweep.skipped_values > 0
  /\ \E idx \in 1..Len(sweep.evaluated) : sweep.evaluated[idx].jumped

\* C23: ImageDumper::Dump calls Callback only while it holds the heap
\* bitmap lock as a reader, and holds it as a reader from before the first
\* callback until it returns, after the walk of the large objects; it has
\* released its writer hold before it becomes a reader, so it never holds
\* both.
C23_CallbacksUnderReaderLock ==
  /\ [](Cardinality(heap_bitmap_lock_) <= 1)
  /\ [][\/ heap_bitmap_lock_ = {"reader"} /\ heap_bitmap_lock_' = {"reader"}
        \/ ~Callback]_vars
  /\ [][("reader" \in heap_bitmap_lock_ /\ "reader" \notin heap_bitmap_lock_')
          => ipc' = "returned"]_vars

\* The walk of the large objects is in progress after callbacks, under
\* the reader lock.
C23_Witness ==
  /\ ipc = "large_objects"
  /\ Len(callbacks) = MaxCallbacks
  /\ heap_bitmap_lock_ = {"reader"}

\* The vector the sweep in progress (or the one that ended last) runs
\* over, as DumpOutliers was entered, and the operands of that sweep.
SweptVector ==
  IF opc \in {"size_sweep", "size_end"} THEN samples.size ELSE samples.expansion

SweptMetric ==
  IF opc \in {"size_sweep", "size_end"} THEN SizeMetric(sweep)
                                        ELSE ExpansionMetric(sweep)

\* C22: a sample is reported at k standard deviations only if it exceeds
\* the mean and its squared deviation exceeds k * k times the variance, the
\* mean and the variance being those computed before the sweep; a sample
\* that does not exceed the mean is neither reported nor skipped.
C22_ReportedOnlyAboveThreshold ==
  \A a \in 1..Len(sweep.log) :
    LET e == sweep.log[a]
    IN  /\ SweptVector[e.j + 1] > SweptMetric.mean * SweptMetric.unit
        /\ ~e.skipped => (e.j + 1) \in QualifyingAt(SweptVector, SweptMetric, e.i)

\* C24: when a sweep of DumpOutliers has ended, the samples it reported
\* and the samples it counted as skipped are together as many as the
\* samples that exceed the mean and whose squared deviation exceeds the
\* variance.
C24_ReportedPlusSkippedIsQualifying ==
  opc \in {"size_end", "expansion_end"} =>
    sweep.dumped_values + sweep.skipped_values
      = Cardinality(QualifyingAt(SweptVector, SweptMetric, 1))

\* The first threshold of the sweep: line 988 or line 1027.
SweepRange == IF opc \in {"size_sweep", "size_end"} THEN 100 ELSE 10

\* C25: a sample that DumpOutliers reports is reported at the largest
\* threshold of the sweep's range at which it is an outlier: it is not
\* printed under k when it exceeds the mean by more than k' standard
\* deviations for a k' of the range above k.
C25_ReportedAtLargestThreshold ==
  \A a \in 1..Len(sweep.log) :
    LET e == sweep.log[a]
    IN  ~e.skipped =>
          \A k \in (e.i + 1)..SweepRange :
            (e.j + 1) \notin QualifyingAt(SweptVector, SweptMetric, k)

\* C26: every value the construction of the OatDumper inserts into the
\* registry is an offset of the oat file, between 0 and End - Begin, so
\* that the offset of the file's end is the largest registered value.
C26_RegistryHoldsOffsetsOfTheFile ==
  \A offset \in offsets_ : 0 <= offset /\ offset <= OatEnd - OatBegin

====
